---- MODULE Spec2Model ----
(***************************************************************************)
(* Activation of the React Native extension (src/extension/rn-extension.ts)*)
(* as a state machine.  The host runs one JavaScript thread: a handler     *)
(* (activate, a promise continuation) runs to its end before the next one  *)
(* starts, so every handler is one action.  An asynchronous operation of a *)
(* collaborator (file system, settings, prompt, child process) is started  *)
(* by the handler that calls it and settles in a later action, with an     *)
(* outcome the environment chooses.                                        *)
(***************************************************************************)
EXTENDS Integers, Sequences, FiniteSets, TLC

VARIABLES
    actPc,          \* "init" before activate is called, "returned" after
    isRN,           \* the isReactNativeProject() promise
    subscriptions,  \* context.subscriptions, the disposal list
    commands,       \* names registered with vscode.commands
    VSCODE_TSJS,    \* process.env.VSCODE_TSJS as this process sees it
    pkg,            \* package.json of the extension: name and version
    launcherPath,   \* require.resolve("../debugger/launcher"), as characters
    fs,             \* directories that exist in the workspace
    files,          \* file path -> contents, for the files that exist
    tsconfig,       \* the tsconfig document: allowJs and exclude
    tsdk,           \* the typescript.tsdk setting
    dbg,            \* the chain of setupReactNativeDebugger
    prompt,         \* the "Turn on Salsa" prompt
    cfg,            \* the chain allowJs -> addExcludePaths
    typ,            \* the chain copyRecursive(typings) -> installTypescriptNext
    inst,           \* the two invocations of installTypescriptNext
    execs,          \* command lines handed to ChildProcess.exec
    execState,      \* the child process
    infoShown,      \* information messages shown, in order
    errorsShown,    \* error messages shown, in order
    unhandled,      \* chains whose rejection reached .done()
    stubWritten,    \* history: every successful write of the stub
    calls           \* history: how often each operation was called

vars == <<actPc, isRN, subscriptions, commands, VSCODE_TSJS, pkg, launcherPath,
          fs, files, tsconfig, tsdk, dbg, prompt, cfg, typ, inst, execs,
          execState, infoShown, errorsShown, unhandled, stubWritten, calls>>

\* ------------------------------------------------------------------ bounds

\* Distinct error messages a failing file operation may carry.
NumErrMsgs == 2

ErrMsgs == {"E" \o ToString(i) : i \in 1..NumErrMsgs}

NoErr == "none"

\* ------------------------------------------------------------------- paths

\* vscode.workspace.rootPath, as path segments.
RootPath == <<"proj">>

\* The directory the extension is installed in (__dirname/../..).
ExtensionRoot == <<"ext">>

PathJoin(p, segs) == p \o segs

VscodeFolder == PathJoin(RootPath, <<".vscode">>)

DebugStub == PathJoin(VscodeFolder, <<"launchReactNative.js">>)

ReactTypingsSource == PathJoin(ExtensionRoot, <<"ReactTypings">>)

ReactTypingsDest == PathJoin(RootPath, <<".vscode", "typings">>)

TypeScriptNextSource == PathJoin(ExtensionRoot, <<"TypescriptNext">>)

TypeScriptNextDest == PathJoin(RootPath, <<".vscode">>)

\* Fault: the lib path is looked for directly below the destination.
TypeScriptNextLibPathFlat == PathJoin(TypeScriptNextDest, <<"lib">>)

TypeScriptNextLibPath == PathJoin(TypeScriptNextDest, <<"typescript", "lib">>)

\* The directories below a bundled source tree, relative to it.
SourceTree(src) ==
    IF src = ReactTypingsSource THEN {<<"react">>, <<"react-native">>}
    ELSE IF src = TypeScriptNextSource THEN {<<"typescript">>, <<"typescript", "lib">>}
    ELSE {}

\* Every proper, non-empty prefix of a path below the workspace root.
Parents(p) == {SubSeq(p, 1, n) : n \in (Len(RootPath) + 1)..(Len(p) - 1)}

\* What a successful copyRecursive(src, dest) leaves on disk.
CopiedTree(src, dest) == Parents(dest) \cup {dest} \cup {dest \o r : r \in SourceTree(src)}

\* ensureDirectory(dir) succeeded: the directory exists, what was there stays.
EnsureDirectory(disk, dir) == disk \cup {dir}

\* ensureFileWithContents(file, contents) succeeded: the file holds contents.
EnsureFileWithContents(fl, file, contents) ==
    [p \in DOMAIN fl \cup {file} |-> IF p = file THEN contents ELSE fl[p]]

\* ------------------------------------------------------- the generated stub

\* JSON.stringify of a string given as a sequence of characters.
RECURSIVE JsonEscape(_)
JsonEscape(s) ==
    IF s = <<>> THEN <<>>
    ELSE (IF Head(s) = "\\" THEN <<"\\", "\\">>
          ELSE IF Head(s) = "\"" THEN <<"\\", "\"">>
          ELSE <<Head(s)>>) \o JsonEscape(Tail(s))

JsonStringify(s) == <<"\"">> \o JsonEscape(s) \o <<"\"">>

\* Fault: the header also carries a count of the stubs generated so far.
DebuggerEntryCodeStamped(extensionName, extensionVersionNumber, launcher) ==
    <<"// This file is automatically generated by ", extensionName, "@",
      extensionVersionNumber, " #", ToString(Len(stubWritten)),
      "\n// Please do not modify it manually. All changes will be lost.\ntry {\n    var path = require(\"path\");\n    var Launcher = require(">>
    \o JsonStringify(launcher)
    \o <<").Launcher;\n    new Launcher(path.resolve(__dirname, \"..\")).launch();\n} catch (e) {\n    throw new Error(\"Unable to launch application. Try deleting .vscode/launchReactNative.js and restarting vscode.\");\n}">>

\* The template literal debuggerEntryCode, as the sequence of its pieces.
DebuggerEntryCode(extensionName, extensionVersionNumber, launcher) ==
    <<"// This file is automatically generated by ", extensionName, "@",
      extensionVersionNumber,
      "\n// Please do not modify it manually. All changes will be lost.\ntry {\n    var path = require(\"path\");\n    var Launcher = require(">>
    \o JsonStringify(launcher)
    \o <<").Launcher;\n    new Launcher(path.resolve(__dirname, \"..\")).launch();\n} catch (e) {\n    throw new Error(\"Unable to launch application. Try deleting .vscode/launchReactNative.js and restarting vscode.\");\n}">>

\* ---------------------------------------------------------------- messages

PromptMsg == "Turn on Salsa intellisense for VS Code?"

RestartMsg == "Salsa intellisense for VS Code was turned on. Restart to enable it."

CommandNames ==
    <<"reactNative.runAndroid", "reactNative.runIos",
      "reactNative.startPackager", "reactNative.stopPackager">>

ReactDirManager == "ReactDirManager"

\* ------------------------------------------------------------ initial state

\* A variable the environment does not hold reads as undefined.
Undefined == "<undefined>"

\* Values process.env.VSCODE_TSJS can have: absent, empty, or the "1" the
\* setter commands write.
EnvValues == {Undefined, "", "1"}

\* JavaScript truthiness of an environment value: undefined and the empty
\* string are falsy, every other string is truthy.
Truthy(v) == v # Undefined /\ v # ""

\* The identity read from package.json and the resolved launcher module.
Pkg == [name |-> "vscode-react-native", version |-> "0.1.0"]

PosixLauncher == <<"/", "e", "/", "l">>

\* A stub left by an earlier version of the extension.
OldStub == DebuggerEntryCode(Pkg.name, "0.0.9", PosixLauncher)

NoFiles == [p \in {} |-> <<>>]

NoPath == <<>>

\* A typescript.tsdk the user had set by hand.
OtherTsdk == <<"usr", "lib", "typescript">>

\* Workspaces activation can find: nothing there, .vscode only, the toolchain
\* installed.
InitialDisks ==
    { {},
      {VscodeFolder},
      CopiedTree(TypeScriptNextSource, TypeScriptNextDest) }

InitialFiles(disk) ==
    IF VscodeFolder \in disk
    THEN {NoFiles, EnsureFileWithContents(NoFiles, DebugStub, OldStub)}
    ELSE {NoFiles}

\* The persisted documents activation can find: untouched, with a tsdk the
\* user chose, or as an earlier activation left them.
InitialDocuments ==
    { [tsconfig |-> [allowJs |-> FALSE, exclude |-> <<"a">>], tsdk |-> NoPath],
      [tsconfig |-> [allowJs |-> FALSE, exclude |-> <<"a">>], tsdk |-> OtherTsdk],
      [tsconfig |-> [allowJs |-> TRUE, exclude |-> <<"a", "node_modules">>],
       tsdk |-> TypeScriptNextLibPath] }

Installs == {"A", "B"}

\* The calls the handlers make to their collaborators and to each other.
Operations ==
    {"ensureDirectory", "ensureFileWithContents", "showPrompt", "enableSalsa",
     "exec", "allowJs", "addExcludePaths", "copyTypings",
     "installTypescriptNext", "exists", "copyTypescriptNext", "typescriptTsdk",
     "showRestart", "showErrorMessage"}

\* The call counts after one more call of each operation in ops.
Called(ops) == [o \in Operations |-> IF o \in ops THEN calls[o] + 1 ELSE calls[o]]

IdleInstall == [pc |-> "idle", found |-> "unknown", copied |-> FALSE, at |-> "none"]

\* Everything of the process before activate is called.
InitProcess ==
    /\ actPc = "init"
    /\ isRN = "none"
    /\ subscriptions = <<>>
    /\ commands = {}
    /\ dbg = [pc |-> "idle", err |-> NoErr, at |-> "none"]
    /\ prompt = "none"
    /\ cfg = "idle"
    /\ typ = "idle"
    /\ inst = [i \in Installs |-> IdleInstall]
    /\ execs = <<>>
    /\ execState = "none"
    /\ infoShown = <<>>
    /\ errorsShown = <<>>
    /\ unhandled = {}
    /\ stubWritten = <<>>
    /\ calls = [o \in Operations |-> 0]

Init ==
    /\ InitProcess
    /\ VSCODE_TSJS \in EnvValues
    /\ pkg = Pkg
    /\ launcherPath = PosixLauncher
    /\ fs \in InitialDisks
    /\ files \in InitialFiles(fs)
    /\ \E doc \in InitialDocuments :
           /\ tsconfig = doc.tsconfig
           /\ tsdk = doc.tsdk

\* ------------------------------------------------------------------ activate

\* Fault: the last command is left out of the disposal list.
RegisterCommandsButLast(subs) == subs \o SubSeq(CommandNames, 1, Len(CommandNames) - 1)

\* vscode.commands.registerCommand for the four commands, each pushed on
\* context.subscriptions.
RegisterCommands(subs) == subs \o CommandNames

\* activate: starts the applicability check, then registers the commands.
\* The continuation of the check runs in a later turn (Q promises never call
\* back synchronously).
Activate ==
    /\ actPc = "init"
    /\ actPc' = "returned"
    /\ UNCHANGED calls
    /\ isRN' = "pending"
    /\ subscriptions' = RegisterCommands(subscriptions)
    /\ commands' = commands \cup {CommandNames[i] : i \in 1..Len(CommandNames)}
    /\ UNCHANGED <<VSCODE_TSJS, pkg, launcherPath, fs, files, tsconfig, tsdk, dbg,
                   prompt, cfg, typ, inst, execs, execState, infoShown,
                   errorsShown, unhandled, stubWritten>>

\* Fault: the stub is written without first ensuring its directory.
SetupReactNativeDebuggerWriteFirst ==
    dbg' = [pc |-> "ensureFileWithContents", err |-> NoErr, at |-> "none"]

\* setupReactNativeDebugger: builds the stub text and calls ensureDirectory.
SetupReactNativeDebugger ==
    dbg' = [pc |-> "ensureDirectory", err |-> NoErr, at |-> "none"]

\* Fault: the prompt is shown without looking at the flag.
ShowsPromptAlways == TRUE

\* setupReactNativeIntellisense, the prompt: shown when the flag is not set.
ShowsPrompt == ~Truthy(VSCODE_TSJS)

\* Fault: the config and typings chains sit in the else branch of the flag
\* test, so they start only when no prompt is shown.
SetupReactNativeIntellisenseElse ==
    IF ShowsPrompt
    THEN /\ prompt' = "shown"
         /\ infoShown' = Append(infoShown, PromptMsg)
         /\ UNCHANGED <<cfg, typ>>
    ELSE /\ cfg' = "allowJs"
         /\ typ' = "copyRecursive"
         /\ UNCHANGED <<prompt, infoShown>>

\* setupReactNativeIntellisense: the prompt, then allowJs and the typings
\* copy are both called before the function returns.
SetupReactNativeIntellisense ==
    /\ IF ShowsPrompt
       THEN /\ prompt' = "shown"
            /\ infoShown' = Append(infoShown, PromptMsg)
       ELSE UNCHANGED <<prompt, infoShown>>
    /\ cfg' = "allowJs"
    /\ typ' = "copyRecursive"

\* Fault: the continuation does not test the value it is given.
GateIgnored(isRNProject) == TRUE

\* The branch the continuation of isReactNativeProject() takes.
Gate(isRNProject) == isRNProject

\* Fault: the continuation runs as soon as it is attached, ahead of the
\* registration of the commands.
IsRNProjectThenAtOnce(isRNProject) ==
    /\ isRN \in {"none", "pending"}
    /\ isRN' = IF isRNProject THEN "true" ELSE "false"
    /\ IF Gate(isRNProject)
       THEN /\ SetupReactNativeDebugger
            /\ SetupReactNativeIntellisense
            /\ subscriptions' = Append(subscriptions, ReactDirManager)
            /\ calls' = Called({"ensureDirectory", "allowJs", "copyTypings"}
                               \cup (IF ShowsPrompt THEN {"showPrompt"} ELSE {}))
       ELSE UNCHANGED <<dbg, prompt, infoShown, cfg, typ, subscriptions, calls>>
    /\ UNCHANGED <<actPc, commands, VSCODE_TSJS, pkg, launcherPath, fs, files,
                   tsconfig, tsdk, inst, execs, execState, errorsShown,
                   unhandled, stubWritten>>

\* The continuation of isReactNativeProject(), with the value it resolved to.
IsRNProjectThen(isRNProject) ==
    /\ isRN = "pending"
    /\ isRN' = IF isRNProject THEN "true" ELSE "false"
    /\ IF Gate(isRNProject)
       THEN /\ SetupReactNativeDebugger
            /\ SetupReactNativeIntellisense
            /\ subscriptions' = Append(subscriptions, ReactDirManager)
            /\ calls' = Called({"ensureDirectory", "allowJs", "copyTypings"}
                               \cup (IF ShowsPrompt THEN {"showPrompt"} ELSE {}))
       ELSE UNCHANGED <<dbg, prompt, infoShown, cfg, typ, subscriptions, calls>>
    /\ UNCHANGED <<actPc, commands, VSCODE_TSJS, pkg, launcherPath, fs, files,
                   tsconfig, tsdk, inst, execs, execState, errorsShown,
                   unhandled, stubWritten>>

\* isReactNativeProject() rejects: no handler is attached, nothing runs.
IsRNProjectRejected ==
    /\ isRN = "pending"
    /\ isRN' = "rejected"
    /\ UNCHANGED calls
    /\ UNCHANGED <<actPc, subscriptions, commands, VSCODE_TSJS, pkg, launcherPath,
                   fs, files, tsconfig, tsdk, dbg, prompt, cfg, typ, inst,
                   execs, execState, infoShown, errorsShown, unhandled,
                   stubWritten>>

\* ------------------------------------------------------------ the stub chain

\* Fault: the handler shows a fixed text in place of err.message.
CatchStubGeneric(err) == Append(errorsShown, "Unable to set up the debugger")

\* .catch of the stub chain: one error message with err.message.
CatchStub(err) == Append(errorsShown, err)

\* Fault: a failed ensureDirectory is tried once more before giving up.
EnsureDirectoryDoneRetrying(ok, err) ==
    /\ dbg.pc = "ensureDirectory"
    /\ IF ok
       THEN /\ fs' = EnsureDirectory(fs, VscodeFolder)
            /\ dbg' = [dbg EXCEPT !.pc = "ensureFileWithContents"]
            /\ calls' = Called({"ensureFileWithContents"})
            /\ UNCHANGED errorsShown
       ELSE IF calls["ensureDirectory"] < 2
            THEN /\ calls' = Called({"ensureDirectory"})
                 /\ UNCHANGED <<dbg, errorsShown, fs>>
            ELSE /\ dbg' = [pc |-> "caught", err |-> err, at |-> "ensureDirectory"]
                 /\ errorsShown' = CatchStub(err)
                 /\ calls' = Called({"showErrorMessage"})
                 /\ UNCHANGED fs
    /\ UNCHANGED <<actPc, isRN, subscriptions, commands, VSCODE_TSJS, pkg,
                   launcherPath, files, tsconfig, tsdk, prompt, cfg, typ, inst,
                   execs, execState, infoShown, unhandled, stubWritten>>

\* ensureDirectory(vscodeFolder) settles.
EnsureDirectoryDone(ok, err) ==
    /\ dbg.pc = "ensureDirectory"
    /\ IF ok
       THEN /\ fs' = EnsureDirectory(fs, VscodeFolder)
            /\ dbg' = [dbg EXCEPT !.pc = "ensureFileWithContents"]
            /\ calls' = Called({"ensureFileWithContents"})
            /\ UNCHANGED errorsShown
       ELSE /\ dbg' = [pc |-> "caught", err |-> err, at |-> "ensureDirectory"]
            /\ errorsShown' = CatchStub(err)
            /\ calls' = Called({"showErrorMessage"})
            /\ UNCHANGED fs
    /\ UNCHANGED <<actPc, isRN, subscriptions, commands, VSCODE_TSJS, pkg,
                   launcherPath, files, tsconfig, tsdk, prompt, cfg, typ, inst,
                   execs, execState, infoShown, unhandled, stubWritten>>

\* ensureFileWithContents(debugStub, debuggerEntryCode) settles.
EnsureFileDone(ok, err) ==
    /\ dbg.pc = "ensureFileWithContents"
    /\ IF ok
       THEN LET code == DebuggerEntryCode(pkg.name, pkg.version, launcherPath)
            IN  /\ files' = EnsureFileWithContents(files, DebugStub, code)
                /\ stubWritten' = Append(stubWritten, [path |-> DebugStub, contents |-> code])
                /\ dbg' = [dbg EXCEPT !.pc = "done"]
                /\ UNCHANGED <<errorsShown, calls>>
       ELSE /\ dbg' = [pc |-> "caught", err |-> err, at |-> "ensureFileWithContents"]
            /\ errorsShown' = CatchStub(err)
            /\ calls' = Called({"showErrorMessage"})
            /\ UNCHANGED <<files, stubWritten>>
    /\ UNCHANGED <<actPc, isRN, subscriptions, commands, VSCODE_TSJS, pkg,
                   launcherPath, fs, tsconfig, tsdk, prompt, cfg, typ, inst,
                   execs, execState, infoShown, unhandled>>

\* ------------------------------------------------- installTypescriptNext

\* fileSystem.exists(path) resolved: whether the path is on disk.
Exists(disk, path) == path \in disk

\* Fault: the install promise is shared, so an invocation made after another
\* one failed is handed that rejection and runs no step of its own.
InstallTypescriptNextShared ==
    IF \E j \in Installs : inst[j].pc = "failed"
    THEN [pc |-> "failed", found |-> "unknown", copied |-> FALSE, at |-> "none"]
    ELSE [pc |-> "exists", found |-> "unknown", copied |-> FALSE, at |-> "none"]

\* installTypescriptNext is called: it calls fileSystem.exists(libPath).
InstallTypescriptNext ==
    [pc |-> "exists", found |-> "unknown", copied |-> FALSE, at |-> "none"]

\* Fault: the copy is never made.
NeedsCopyNever(exists) == FALSE

\* Fault: the copy is made whatever exists() answered.
NeedsCopyAlways(exists) == TRUE

\* The first continuation of installTypescriptNext: copy when not there.
NeedsCopy(exists) == ~exists

\* The chain whose .done() observes the promise of an install invocation.
ChainOf(i) == IF i = "A" THEN "enableSalsa" ELSE "typings"

\* Fault: the restart message is shown twice by chain A.
InstallResolvedTwice(i) ==
    IF i = "A" THEN infoShown \o <<RestartMsg, RestartMsg>> ELSE infoShown

\* Fault: the restart message is shown by every install invocation.
InstallResolvedAnnounces(i) == Append(infoShown, RestartMsg)

\* What is shown when the promise of an install invocation resolves: the
\* continuation in enableSalsa shows the restart message, the typings chain
\* has none.
InstallResolved(i) ==
    IF i = "A" THEN Append(infoShown, RestartMsg) ELSE infoShown

\* fileSystem.exists(typeScriptNextLibPath) settles for invocation i.
ExistsDone(i, ok) ==
    /\ inst[i].pc = "exists"
    /\ IF ok
       THEN LET exists == Exists(fs, TypeScriptNextLibPath)
            IN  /\ inst' = [inst EXCEPT ![i] =
                       [pc |-> IF NeedsCopy(exists) THEN "copyRecursive"
                               ELSE "typescriptTsdk",
                        found |-> IF exists THEN "present" ELSE "absent",
                        copied |-> NeedsCopy(exists),
                        at |-> "none"]]
                /\ calls' = Called({IF NeedsCopy(exists) THEN "copyTypescriptNext"
                                    ELSE "typescriptTsdk"})
                /\ UNCHANGED unhandled
       ELSE /\ inst' = [inst EXCEPT ![i].pc = "failed", ![i].at = "exists"]
            /\ unhandled' = unhandled \cup {ChainOf(i)}
            /\ UNCHANGED calls
    /\ UNCHANGED <<actPc, isRN, subscriptions, commands, VSCODE_TSJS, pkg,
                   launcherPath, fs, files, tsconfig, tsdk, dbg, prompt, cfg,
                   typ, execs, execState, infoShown, errorsShown, stubWritten>>

\* copyRecursive(typeScriptNextSource, typeScriptNextDest) settles for
\* invocation i.  A failed copy may leave the tree it had begun to write.
CopyTypescriptNextDone(i, ok, partial) ==
    /\ inst[i].pc = "copyRecursive"
    /\ IF ok
       THEN /\ fs' = fs \cup CopiedTree(TypeScriptNextSource, TypeScriptNextDest)
            /\ inst' = [inst EXCEPT ![i].pc = "typescriptTsdk"]
            /\ calls' = Called({"typescriptTsdk"})
            /\ UNCHANGED unhandled
       ELSE /\ fs' = IF partial
                     THEN fs \cup CopiedTree(TypeScriptNextSource, TypeScriptNextDest)
                     ELSE fs
            /\ inst' = [inst EXCEPT ![i].pc = "failed", ![i].at = "copyRecursive"]
            /\ unhandled' = unhandled \cup {ChainOf(i)}
            /\ UNCHANGED calls
    /\ UNCHANGED <<actPc, isRN, subscriptions, commands, VSCODE_TSJS, pkg,
                   launcherPath, files, tsconfig, tsdk, dbg, prompt, cfg, typ,
                   execs, execState, infoShown, errorsShown, stubWritten>>

\* SettingsHelper.typescriptTsdk(typeScriptNextLibPath) settles for
\* invocation i; with it the promise of installTypescriptNext settles.
TypescriptTsdkDone(i, ok) ==
    /\ inst[i].pc = "typescriptTsdk"
    /\ IF ok
       THEN /\ tsdk' = TypeScriptNextLibPath
            /\ inst' = [inst EXCEPT ![i].pc = "done"]
            /\ infoShown' = InstallResolved(i)
            /\ calls' = Called(IF InstallResolved(i) # infoShown
                               THEN {"showRestart"} ELSE {})
            /\ UNCHANGED unhandled
       ELSE /\ inst' = [inst EXCEPT ![i].pc = "failed", ![i].at = "typescriptTsdk"]
            /\ unhandled' = unhandled \cup {ChainOf(i)}
            /\ UNCHANGED <<tsdk, infoShown, calls>>
    /\ UNCHANGED <<actPc, isRN, subscriptions, commands, VSCODE_TSJS, pkg,
                   launcherPath, fs, files, tsconfig, dbg, prompt, cfg, typ,
                   execs, execState, errorsShown, stubWritten>>

\* ------------------------------------------------------ prompt, enableSalsa

\* What os.type() can answer, and the name "Windows" the code compares with.
OsTypes == {"Darwin", "Windows", "Windows_NT", "Linux"}

\* The command line enableSalsa builds for the platform.
SetSalsaEnvVariable(osType) ==
    IF osType = "Darwin" THEN "launchctl setenv VSCODE_TSJS 1"
    ELSE IF osType = "Windows" THEN "setx VSCODE_TSJS 1"
    ELSE ""

\* The answers the prompt can resolve to: its one item, or dismissed.
PromptResults == {"Yes", "undefined"}

\* Fault: any settled prompt counts as consent.
AcceptedAny(result) == TRUE

\* The test the continuation of the prompt makes on its result.
Accepted(result) == result = "Yes"

\* enableSalsa: checks the flag again, hands the command line to exec and
\* calls installTypescriptNext.
EnableSalsa(osType) ==
    IF ~Truthy(VSCODE_TSJS)
    THEN /\ execs' = Append(execs, SetSalsaEnvVariable(osType))
         /\ execState' = "running"
         /\ inst' = [inst EXCEPT !["A"] = InstallTypescriptNext]
         /\ calls' = Called({"enableSalsa", "exec", "installTypescriptNext", "exists"})
    ELSE /\ calls' = Called({"enableSalsa"})
         /\ UNCHANGED <<execs, execState, inst>>

\* Fault: accepting also sets the flag in the environment of this process.
PromptThenSetsOwnFlag(result, osType) ==
    /\ prompt = "shown"
    /\ prompt' = result
    /\ IF Accepted(result)
       THEN EnableSalsa(osType) /\ VSCODE_TSJS' = "1"
       ELSE UNCHANGED <<execs, execState, inst, calls, VSCODE_TSJS>>
    /\ UNCHANGED <<actPc, isRN, subscriptions, commands, pkg,
                   launcherPath, fs, files, tsconfig, tsdk, dbg, cfg, typ,
                   infoShown, errorsShown, unhandled, stubWritten>>

\* The continuation of the prompt, with the user's answer.
PromptThen(result, osType) ==
    /\ prompt = "shown"
    /\ prompt' = result
    /\ IF Accepted(result)
       THEN EnableSalsa(osType)
       ELSE UNCHANGED <<execs, execState, inst, calls>>
    /\ UNCHANGED <<actPc, isRN, subscriptions, commands, VSCODE_TSJS, pkg,
                   launcherPath, fs, files, tsconfig, tsdk, dbg, cfg, typ,
                   infoShown, errorsShown, unhandled, stubWritten>>

\* The child process ends; nothing listens to its outcome.
ExecExits(ok) ==
    /\ execState = "running"
    /\ execState' = IF ok THEN "exited" ELSE "failed"
    /\ UNCHANGED calls
    /\ UNCHANGED <<actPc, isRN, subscriptions, commands, VSCODE_TSJS, pkg,
                   launcherPath, fs, files, tsconfig, tsdk, dbg, prompt, cfg,
                   typ, inst, execs, infoShown, errorsShown, unhandled,
                   stubWritten>>

\* ------------------------------------------------------------- config chain

\* TsConfigHelper.allowJs(enabled) succeeded.
AllowJs(doc, enabled) == [doc EXCEPT !.allowJs = enabled]

\* TsConfigHelper.addExcludePaths(paths) succeeded: each path is appended
\* unless the list holds it already.
RECURSIVE AddExcludePaths(_, _)
AddExcludePaths(doc, paths) ==
    IF paths = <<>> THEN doc
    ELSE AddExcludePaths(
             IF \E k \in 1..Len(doc.exclude) : doc.exclude[k] = Head(paths)
             THEN doc
             ELSE [doc EXCEPT !.exclude = Append(doc.exclude, Head(paths))],
             Tail(paths))

\* TsConfigHelper.allowJs(true) settles.
AllowJsDone(ok) ==
    /\ cfg = "allowJs"
    /\ IF ok
       THEN /\ tsconfig' = AllowJs(tsconfig, TRUE)
            /\ cfg' = "addExcludePaths"
            /\ calls' = Called({"addExcludePaths"})
            /\ UNCHANGED unhandled
       ELSE /\ cfg' = "failed"
            /\ unhandled' = unhandled \cup {"config"}
            /\ UNCHANGED <<tsconfig, calls>>
    /\ UNCHANGED <<actPc, isRN, subscriptions, commands, VSCODE_TSJS, pkg,
                   launcherPath, fs, files, tsdk, dbg, prompt, typ, inst,
                   execs, execState, infoShown, errorsShown, stubWritten>>

\* TsConfigHelper.addExcludePaths(["node_modules"]) settles.
AddExcludePathsDone(ok) ==
    /\ cfg = "addExcludePaths"
    /\ UNCHANGED calls
    /\ IF ok
       THEN /\ tsconfig' = AddExcludePaths(tsconfig, <<"node_modules">>)
            /\ cfg' = "done"
            /\ UNCHANGED unhandled
       ELSE /\ cfg' = "failed"
            /\ unhandled' = unhandled \cup {"config"}
            /\ UNCHANGED tsconfig
    /\ UNCHANGED <<actPc, isRN, subscriptions, commands, VSCODE_TSJS, pkg,
                   launcherPath, fs, files, tsdk, dbg, prompt, typ, inst,
                   execs, execState, infoShown, errorsShown, stubWritten>>

\* ------------------------------------------------------------ typings chain

\* copyRecursive(reactTypingsSource, reactTypingsDest) settles; on success
\* its continuation calls installTypescriptNext.
CopyTypingsDone(ok, partial) ==
    /\ typ = "copyRecursive"
    /\ IF ok
       THEN /\ fs' = fs \cup CopiedTree(ReactTypingsSource, ReactTypingsDest)
            /\ typ' = "installTypescriptNext"
            /\ inst' = [inst EXCEPT !["B"] = InstallTypescriptNext]
            /\ calls' = Called({"installTypescriptNext", "exists"})
            /\ UNCHANGED unhandled
       ELSE /\ fs' = IF partial
                     THEN fs \cup Parents(ReactTypingsDest) \cup {ReactTypingsDest}
                     ELSE fs
            /\ typ' = "failed"
            /\ unhandled' = unhandled \cup {"typings"}
            /\ UNCHANGED <<inst, calls>>
    /\ UNCHANGED <<actPc, isRN, subscriptions, commands, VSCODE_TSJS, pkg,
                   launcherPath, files, tsconfig, tsdk, dbg, prompt, cfg,
                   execs, execState, infoShown, errorsShown, stubWritten>>

\* ------------------------------------------------------------ specification

Next ==
    \/ Activate
    \/ \E isRNProject \in BOOLEAN : IsRNProjectThen(isRNProject)
    \/ IsRNProjectRejected
    \/ \E ok \in BOOLEAN, err \in ErrMsgs : EnsureDirectoryDone(ok, err)
    \/ \E ok \in BOOLEAN, err \in ErrMsgs : EnsureFileDone(ok, err)
    \/ \E result \in PromptResults, osType \in OsTypes : PromptThen(result, osType)
    \/ \E ok \in BOOLEAN : ExecExits(ok)
    \/ \E ok \in BOOLEAN : AllowJsDone(ok)
    \/ \E ok \in BOOLEAN : AddExcludePathsDone(ok)
    \/ \E ok \in BOOLEAN, partial \in BOOLEAN : CopyTypingsDone(ok, partial)
    \/ \E i \in Installs, ok \in BOOLEAN : ExistsDone(i, ok)
    \/ \E i \in Installs, ok \in BOOLEAN, partial \in BOOLEAN :
           CopyTypescriptNextDone(i, ok, partial)
    \/ \E i \in Installs, ok \in BOOLEAN : TypescriptTsdkDone(i, ok)

Spec == Init /\ [][Next]_vars

\* Every file, settings and process operation that was started settles.
OperationsSettle ==
    /\ WF_vars(\E ok \in BOOLEAN, err \in ErrMsgs : EnsureDirectoryDone(ok, err))
    /\ WF_vars(\E ok \in BOOLEAN, err \in ErrMsgs : EnsureFileDone(ok, err))
    /\ WF_vars(\E ok \in BOOLEAN : ExecExits(ok))
    /\ WF_vars(\E ok \in BOOLEAN : AllowJsDone(ok))
    /\ WF_vars(\E ok \in BOOLEAN : AddExcludePathsDone(ok))
    /\ WF_vars(\E ok \in BOOLEAN, partial \in BOOLEAN : CopyTypingsDone(ok, partial))
    /\ \A i \in Installs :
           /\ WF_vars(\E ok \in BOOLEAN : ExistsDone(i, ok))
           /\ WF_vars(\E ok \in BOOLEAN, partial \in BOOLEAN :
                          CopyTypescriptNextDone(i, ok, partial))
           /\ WF_vars(\E ok \in BOOLEAN : TypescriptTsdkDone(i, ok))

\* Started operations settle; the user may leave the prompt unanswered.
FairSpec == Spec /\ OperationsSettle

\* Started operations settle and the user answers the prompt.
FairSpecUser ==
    /\ Spec
    /\ OperationsSettle
    /\ WF_vars(\E result \in PromptResults, osType \in OsTypes : PromptThen(result, osType))

\* ------------------------------------------- the stub provisioner, repeated

\* How often the stub provisioner is invoked in succession.
StubInvocations == 2

Identities ==
    {[name |-> n, version |-> v] : n \in {"vscode-react-native", "rn"},
                                   v \in {"0.1.0", "0.1.1"}}

WindowsLauncher == <<"C", ":", "\\", "l">>

QuotedLauncher == <<"/", "\"", "l">>

LauncherPaths == {PosixLauncher, WindowsLauncher, QuotedLauncher}

\* A stub file the user has edited by hand.
EditedStub == <<"// edited">>

StubInit ==
    /\ InitProcess
    /\ VSCODE_TSJS = Undefined
    /\ pkg \in Identities
    /\ launcherPath \in LauncherPaths
    /\ fs \in InitialDisks
    /\ files \in InitialFiles(fs) \cup
           (IF VscodeFolder \in fs
            THEN {EnsureFileWithContents(NoFiles, DebugStub, EditedStub)}
            ELSE {})
    /\ tsconfig = [allowJs |-> FALSE, exclude |-> <<"a">>]
    /\ tsdk = NoPath

\* setupReactNativeDebugger is called again once its last run has ended.
InvokeStubProvisioner ==
    /\ dbg.pc \in {"idle", "done", "caught"}
    /\ Len(stubWritten) + Len(errorsShown) < StubInvocations
    /\ SetupReactNativeDebugger
    /\ calls' = Called({"ensureDirectory"})
    /\ UNCHANGED <<actPc, isRN, subscriptions, commands, VSCODE_TSJS, pkg,
                   launcherPath, fs, files, tsconfig, tsdk, prompt, cfg, typ,
                   inst, execs, execState, infoShown, errorsShown, unhandled,
                   stubWritten>>

StubNext ==
    \/ InvokeStubProvisioner
    \/ \E ok \in BOOLEAN, err \in ErrMsgs : EnsureDirectoryDone(ok, err)
    \/ \E ok \in BOOLEAN, err \in ErrMsgs : EnsureFileDone(ok, err)

StubSpec == StubInit /\ [][StubNext]_vars

\* ------------------------------------------------------------------ helpers

OnDisposalList(x) == \E k \in 1..Len(subscriptions) : subscriptions[k] = x

Shown(msg) == \E k \in 1..Len(infoShown) : infoShown[k] = msg

TimesShown(msg) == Cardinality({k \in 1..Len(infoShown) : infoShown[k] = msg})

AllCommandsRegistered ==
    \A k \in 1..Len(CommandNames) :
        /\ CommandNames[k] \in commands
        /\ OnDisposalList(CommandNames[k])

StubFileHolds(contents) ==
    /\ DebugStub \in DOMAIN files
    /\ files[DebugStub] = contents

TypingsPopulated == CopiedTree(ReactTypingsSource, ReactTypingsDest) \subseteq fs

\* ------------------------------------------------------------------- claims

\* C1: once activate has returned, the four commands runAndroid, runIos,
\* startPackager and stopPackager are registered and on the disposal list,
\* whether the applicability check is pending, resolved true, resolved false
\* or rejected.
C1_CommandsAlwaysRegistered ==
    actPc = "returned" =>
        /\ isRN \in {"pending", "true", "false", "rejected"}
        /\ AllCommandsRegistered

\* Activation returned, the check rejected, and only the commands are listed.
C1_Witness ==
    /\ actPc = "returned"
    /\ isRN = "rejected"
    /\ Len(subscriptions) = Len(CommandNames)

\* C2: unless the applicability check has resolved true, nothing gated has
\* happened: no ensureDirectory, no stub write, no prompt, no config
\* mutation, no typings copy, no install, and no ReactDirManager on the
\* disposal list.
C2_GatedOnlyWhenApplicable ==
    isRN # "true" =>
        /\ dbg.pc = "idle"
        /\ stubWritten = <<>>
        /\ prompt = "none"
        /\ infoShown = <<>>
        /\ errorsShown = <<>>
        /\ cfg = "idle"
        /\ typ = "idle"
        /\ \A i \in Installs : inst[i].pc = "idle"
        /\ execs = <<>>
        /\ ~OnDisposalList(ReactDirManager)

\* The check resolved false after activate returned.
C2_Witness ==
    /\ isRN = "false"
    /\ actPc = "returned"
    /\ AllCommandsRegistered

\* C4: with VSCODE_TSJS set in the process (a non-empty value, which is what
\* the code tests), no prompt is ever shown, on any platform, and so no
\* setter command is run and no restart message is shown.
C4_FlagSetNoPrompt ==
    Truthy(VSCODE_TSJS) =>
        /\ prompt = "none"
        /\ ~Shown(PromptMsg)
        /\ execs = <<>>
        /\ inst["A"].pc = "idle"
        /\ ~Shown(RestartMsg)

\* The flag is set and the bootstrap has run to the end of the typings chain.
C4_Witness ==
    /\ Truthy(VSCODE_TSJS)
    /\ isRN = "true"
    /\ inst["B"].pc = "done"

\* C5: an invocation of installTypescriptNext that found the lib path present
\* performs no copy and goes on to write the tsdk setting with the lib path;
\* once its write has succeeded the setting equals the lib path.
C5_InstallIdempotent ==
    \A i \in Installs :
        /\ inst[i].found = "present" =>
               /\ ~inst[i].copied
               /\ inst[i].pc \in {"typescriptTsdk", "done", "failed"}
               /\ inst[i].pc = "failed" => inst[i].at = "typescriptTsdk"
        /\ inst[i].pc = "done" => tsdk = TypeScriptNextLibPath

\* Both invocations found the lib path present and both wrote the setting.
C5_Witness ==
    \A i \in Installs :
        /\ inst[i].found = "present"
        /\ inst[i].pc = "done"
        /\ tsdk = TypeScriptNextLibPath

\* C6: when the prompt resolved to anything but "Yes", chain A does nothing
\* more: no command is handed to exec, the install of chain A is not started,
\* and no restart message is shown.
C6_DeclineStopsChainA ==
    (prompt \in PromptResults /\ prompt # "Yes") =>
        /\ execs = <<>>
        /\ execState = "none"
        /\ inst["A"] = IdleInstall
        /\ ~Shown(RestartMsg)

\* The prompt was dismissed and chain B still ran to its end.
C6_Witness ==
    /\ prompt = "undefined"
    /\ inst["B"].pc = "done"

\* No operation of any chain is in flight and no prompt is open.
NoPendingOperation ==
    /\ dbg.pc \notin {"ensureDirectory", "ensureFileWithContents"}
    /\ cfg \notin {"allowJs", "addExcludePaths"}
    /\ typ # "copyRecursive"
    /\ \A i \in Installs : inst[i].pc \notin {"exists", "copyRecursive", "typescriptTsdk"}
    /\ execState # "running"
    /\ prompt # "shown"

SomeOperationFailed ==
    \/ dbg.pc = "caught"
    \/ cfg = "failed"
    \/ typ = "failed"
    \/ \E i \in Installs : inst[i].pc = "failed"
    \/ execState = "failed"

EndToEndFinal ==
    /\ NoPendingOperation
    /\ StubFileHolds(DebuggerEntryCode(pkg.name, pkg.version, launcherPath))
    /\ TypingsPopulated
    /\ Exists(fs, TypeScriptNextLibPath)
    /\ tsdk = TypeScriptNextLibPath
    /\ TimesShown(RestartMsg) = 1

\* C3: applicable, flag unset: unless the user dismisses the prompt or an
\* operation fails, every run reaches a state with nothing pending where the
\* generated stub is in .vscode/launchReactNative.js, .vscode/typings is
\* populated, .vscode/typescript/lib exists, the tsdk setting is that lib
\* path and the restart message has been shown once; it is never shown twice.
C3_EndToEnd ==
    /\ [](isRN = "true" /\ ~Truthy(VSCODE_TSJS) =>
            <>(prompt = "undefined" \/ SomeOperationFailed \/ EndToEndFinal))
    /\ [](TimesShown(RestartMsg) <= 1)

\* The user said Yes, nothing failed, and the final state is reached.
C3_Witness ==
    /\ prompt = "Yes"
    /\ ~SomeOperationFailed
    /\ EndToEndFinal

ChainBComplete ==
    /\ cfg = "done"
    /\ tsconfig.allowJs
    /\ \E k \in 1..Len(tsconfig.exclude) : tsconfig.exclude[k] = "node_modules"
    /\ TypingsPopulated
    /\ inst["B"].pc = "done"
    /\ tsdk = TypeScriptNextLibPath

ChainBFailed ==
    \/ cfg = "failed"
    \/ typ = "failed"
    \/ inst["B"].pc = "failed"

\* C7: once the project is found applicable, the config mutations, the
\* typings copy and the install of chain B all complete unless one of their
\* own operations fails, whatever becomes of the prompt: accepted, dismissed,
\* never answered, or not shown because the flag is set.
C7_ChainBIndependent ==
    [](isRN = "true" => <>(ChainBComplete \/ ChainBFailed))

\* Chain B is complete while the prompt is still open.
C7_Witness ==
    /\ ChainBComplete
    /\ prompt = "shown"

\* C8: a failure of ensureDirectory or of the stub write is caught: the one
\* error message shown is the message of that failure, no stub was written,
\* a failed write leaves .vscode in place, and afterwards the chain does
\* nothing more (no retry, no second message, no directory removed).
C8_StubFailureCaughtOnce ==
    /\ [](dbg.pc = "caught" =>
            /\ dbg.err \in ErrMsgs
            /\ errorsShown = <<dbg.err>>
            /\ stubWritten = <<>>
            /\ dbg.at = "ensureFileWithContents" => VscodeFolder \in fs)
    /\ [][dbg.pc = "caught" =>
            /\ dbg' = dbg
            /\ errorsShown' = errorsShown
            /\ files' = files
            /\ fs \subseteq fs']_vars

\* The write failed in a workspace that had no .vscode before: the directory
\* is there, no file is.
C8_Witness ==
    /\ dbg.pc = "caught"
    /\ dbg.at = "ensureFileWithContents"
    /\ Len(errorsShown) = 1
    /\ VscodeFolder \in fs
    /\ files = NoFiles

StubChainRan ==
    \/ dbg.pc = "done"
    \/ dbg.pc = "caught" /\ dbg.at # "none"

InstallRan(i) ==
    \/ inst[i].pc = "done"
    \/ inst[i].pc = "failed" /\ inst[i].at # "none"

ChainARan ==
    \/ prompt \in {"none", "shown", "undefined"}
    \/ prompt = "Yes" /\ InstallRan("A")

ChainBRan ==
    /\ cfg \in {"done", "failed"}
    /\ typ = "failed" \/ InstallRan("B")

\* C9: the commands stay registered whatever fails, and every chain runs on
\* to its own end (its last step done, or stopped by a failure of one of its
\* own operations) whatever failed in the other chains; chain A may wait for
\* the user.
C9_FailuresStayLocal ==
    /\ [](actPc = "returned" => AllCommandsRegistered)
    /\ [](isRN = "true" => <>(StubChainRan /\ ChainARan /\ ChainBRan))

\* The stub chain and chain A both failed and chain B completed.
C9_Witness ==
    /\ dbg.pc = "caught"
    /\ inst["A"].pc = "failed"
    /\ ChainBComplete
    /\ AllCommandsRegistered

ConfigMutationsCompleted == cfg = "done"

\* C11: the steps of chain B run strictly in order, each after the previous
\* one completed: allowJs, then addExcludePaths, then the typings mirror, then
\* the install; the typings mirror is not started before both config
\* mutations have completed.
C11_ChainBStrictOrder ==
    /\ calls["addExcludePaths"] > 0 => cfg \in {"addExcludePaths", "done"}
    /\ calls["copyTypings"] > 0 => ConfigMutationsCompleted
    /\ inst["B"].pc # "idle" => typ = "installTypescriptNext"

\* C12: a failed step of chain B stops the chain: after a failed config
\* mutation neither the typings mirror nor the install of chain B is ever
\* started, and after a failed typings mirror the install is not started.
C12_ChainBFailureFatal ==
    /\ cfg = "failed" =>
           /\ calls["copyTypings"] = 0
           /\ inst["B"] = IdleInstall
    /\ typ = "failed" => inst["B"] = IdleInstall

\* ---------------------------------------------- C13: the two install calls

\* Invocation i found the lib path absent and made the copy.
ObservedAbsentAndCopied(i) ==
    /\ inst[i].found = "absent"
    /\ inst[i].copied
    /\ inst[i].pc \in {"typescriptTsdk", "done"}

\* C13: nothing keeps the two install invocations apart, so both may find the
\* lib path absent and both copy; the copy is made at most twice, and a run
\* in which both copied and both finished ends with the lib path on disk and
\* the tsdk setting equal to the lib path.
C13_DuplicateInstallHarmless ==
    /\ calls["copyTypescriptNext"] <= 2
    /\ calls["copyTypescriptNext"] <= calls["installTypescriptNext"]
    /\ (\A i \in Installs : ObservedAbsentAndCopied(i) /\ inst[i].pc = "done") =>
           /\ Exists(fs, TypeScriptNextLibPath)
           /\ tsdk = TypeScriptNextLibPath

\* Both invocations found the lib path absent, both copied, both finished.
C13_Witness ==
    /\ \A i \in Installs : ObservedAbsentAndCopied(i) /\ inst[i].pc = "done"
    /\ calls["copyTypescriptNext"] = 2
    /\ Exists(fs, TypeScriptNextLibPath)
    /\ tsdk = TypeScriptNextLibPath

\* ------------------------------------------------ C14: the setter per platform

\* The platform names enableSalsa compares os.type() with.
RecognisedPlatforms == {"Darwin", "Windows"}

\* C14: a process is started only on one of the two recognised platforms,
\* each of which has a setter command of its own; on every other platform
\* the opt-in starts no process at all.
C14_NoSetterOnOtherPlatform ==
    /\ SetSalsaEnvVariable("Darwin") # SetSalsaEnvVariable("Windows")
    /\ calls["exec"] = Len(execs)
    /\ \A k \in 1..Len(execs) :
           \E osType \in RecognisedPlatforms : execs[k] = SetSalsaEnvVariable(osType)

\* --------------------------------------------- C15: directory, then the stub

\* The write of the stub has been started.
StubWriteStarted ==
    \/ dbg.pc \in {"ensureFileWithContents", "done"}
    \/ dbg.at = "ensureFileWithContents"

\* C15: the write of the stub starts only after ensureDirectory succeeded, so
\* the .vscode directory is there; when ensureDirectory fails the write is
\* never attempted; when it succeeds the write is always started, once, and
\* a successful write leaves the generated text in the file whatever the
\* file held before.
C15_DirectoryThenStub ==
    /\ StubWriteStarted =>
           /\ Exists(fs, VscodeFolder)
           /\ calls["ensureDirectory"] = 1
           /\ calls["ensureFileWithContents"] = 1
    /\ ~StubWriteStarted =>
           /\ calls["ensureFileWithContents"] = 0
           /\ stubWritten = <<>>
    /\ dbg.at = "ensureDirectory" => ~StubWriteStarted
    /\ dbg.pc = "done" =>
           /\ StubFileHolds(DebuggerEntryCode(pkg.name, pkg.version, launcherPath))
           /\ Len(stubWritten) = 1

\* The directory was ensured and the stub written over what was there.
C15_Witness ==
    /\ dbg.pc = "done"
    /\ Exists(fs, VscodeFolder)
    /\ calls["ensureFileWithContents"] = 1
    /\ StubFileHolds(DebuggerEntryCode(pkg.name, pkg.version, launcherPath))

\* ------------------------------------------- C16: copy, then the tsdk setting

\* Invocation i has called SettingsHelper.typescriptTsdk.
SettingCalled(i) ==
    \/ inst[i].pc \in {"typescriptTsdk", "done"}
    \/ inst[i].at = "typescriptTsdk"

\* Invocation i writes the setting in this step.
WritesSetting(i) == inst[i].pc = "typescriptTsdk" /\ inst'[i].pc = "done"

\* C16: an invocation that found the lib path absent calls typescriptTsdk
\* only after its copy succeeded; an invocation whose exists() or copy failed
\* never calls it; so whenever an invocation writes the setting the lib path
\* is on disk, and what it writes is the lib path.
C16_CopyBeforeSetting ==
    /\ [](\A i \in Installs :
            /\ SettingCalled(i) =>
                   /\ Exists(fs, TypeScriptNextLibPath)
                   /\ inst[i].found = "absent" => inst[i].copied
            /\ inst[i].at \in {"exists", "copyRecursive"} => ~SettingCalled(i))
    /\ [](calls["typescriptTsdk"] = Cardinality({i \in Installs : SettingCalled(i)}))
    /\ [][(\E i \in Installs : WritesSetting(i)) =>
              /\ Exists(fs, TypeScriptNextLibPath)
              /\ tsdk' = TypeScriptNextLibPath]_vars
    /\ [][tsdk' # tsdk => \E i \in Installs : WritesSetting(i)]_vars

\* An invocation found the lib path absent, copied and wrote the setting,
\* the other one failed at its copy.
C16_Witness ==
    \E i, j \in Installs :
        /\ inst[i].found = "absent" /\ inst[i].copied /\ inst[i].pc = "done"
        /\ inst[j].at = "copyRecursive"
        /\ tsdk = TypeScriptNextLibPath
        /\ calls["typescriptTsdk"] = 1

\* ------------------------------------------ C17: the flag as the process sees it

\* C17: no step changes process.env.VSCODE_TSJS; the prompt is only ever there
\* with the flag not set, also after the opt-in and after the setter ran, so
\* every call of enableSalsa passes its own test of the flag and goes on to
\* exec and to the install.
C17_FlagViewUnchanged ==
    /\ [][VSCODE_TSJS' = VSCODE_TSJS]_vars
    /\ [](prompt # "none" => ShowsPrompt)
    /\ [](calls["enableSalsa"] = calls["exec"])
    /\ [](prompt = "Yes" =>
            /\ calls["enableSalsa"] = 1
            /\ Len(execs) = 1
            /\ inst["A"].pc # "idle")

\* The user opted in and the setter command ran to its end with the flag
\* still not set for this process.
C17_Witness ==
    /\ prompt = "Yes"
    /\ execState = "exited"
    /\ execs = <<SetSalsaEnvVariable("Darwin")>>
    /\ ~Truthy(VSCODE_TSJS)
    /\ inst["A"].pc = "done"

\* ------------------------------------------------- C18: the restart message

\* C18: the restart message is shown at most once, exactly when the install
\* invocation of chain A has written the tsdk setting, which takes the user's
\* "Yes"; it is not shown when that invocation fails, and the state of the
\* setter command has no part in it.
C18_RestartOnceAfterInstall ==
    /\ TimesShown(RestartMsg) <= 1
    /\ TimesShown(RestartMsg) = calls["showRestart"]
    /\ Shown(RestartMsg) <=> inst["A"].pc = "done"
    /\ Shown(RestartMsg) =>
           /\ prompt = "Yes"
           /\ tsdk = TypeScriptNextLibPath
    /\ inst["A"].pc = "failed" => ~Shown(RestartMsg)

\* The restart message is there although the setter command failed, having
\* been given the empty command line.
C18_Witness ==
    /\ Shown(RestartMsg)
    /\ prompt = "Yes"
    /\ inst["A"].pc = "done"
    /\ execState = "failed"
    /\ execs = <<"">>

\* ------------------------------------------- C19: registration comes first

\* Something of the gated branch has started.
GatedActionStarted ==
    \/ dbg.pc # "idle"
    \/ prompt # "none"
    \/ cfg # "idle"
    \/ typ # "idle"
    \/ \E i \in Installs : inst[i].pc # "idle"
    \/ OnDisposalList(ReactDirManager)

\* C19: whenever anything of the gated branch has started, activate has
\* returned and the four commands are the first four entries of the disposal
\* list; the ReactDirManager, when there, is the fifth and last entry and is
\* there once.
C19_RegistrationBeforeGated ==
    /\ GatedActionStarted =>
           /\ actPc = "returned"
           /\ Len(subscriptions) >= Len(CommandNames)
           /\ SubSeq(subscriptions, 1, Len(CommandNames)) = CommandNames
    /\ OnDisposalList(ReactDirManager) =>
           subscriptions = CommandNames \o <<ReactDirManager>>
    /\ Cardinality({k \in 1..Len(subscriptions) : subscriptions[k] = ReactDirManager}) <= 1
    /\ Len(subscriptions) <= Len(CommandNames) + 1

\* The gated branch has run: the prompt is up, the stub chain has started,
\* and the ReactDirManager is the fifth entry.
C19_Witness ==
    /\ prompt = "shown"
    /\ dbg.pc = "ensureDirectory"
    /\ cfg = "allowJs"
    /\ Len(subscriptions) = 5
    /\ subscriptions[5] = ReactDirManager
    /\ SubSeq(subscriptions, 1, 4) = CommandNames

\* ------------------------------------------------ C20: activation quiesces

\* The operations of installTypescriptNext, which two call sites enter.
InstallOperations ==
    {"installTypescriptNext", "exists", "copyTypescriptNext", "typescriptTsdk"}

\* The applicability check has resolved.
CheckResolved == isRN \in {"true", "false"}

\* The check has resolved and nothing is in flight.
Quiescent == CheckResolved /\ NoPendingOperation

\* C20: once the applicability check has resolved, with operations settling
\* and the user answering, a state with nothing in flight is reached and
\* nothing starts after it; no step is run again: every operation is called
\* at most once, those of installTypescriptNext at most twice.
C20_ActivationQuiesces ==
    /\ [](CheckResolved => <>Quiescent)
    /\ [][Quiescent => Quiescent' /\ calls' = calls]_vars
    /\ [](\A o \in Operations \ InstallOperations : calls[o] <= 1)
    /\ [](\A o \in InstallOperations : calls[o] <= 2)

\* Nothing is in flight after a run in which the install was entered twice
\* and the stub chain failed.
C20_Witness ==
    /\ Quiescent
    /\ calls["installTypescriptNext"] = 2
    /\ calls["ensureDirectory"] = 1
    /\ dbg.pc = "caught"
    /\ \A i \in Installs : inst[i].pc = "done"

====
